---- MODULE Spec2Model ----
(***************************************************************************)
(* Model of capi_tests/simple/my_module.c: the native extension module     *)
(* my_module, its method table, its module definition, its entry point     *)
(* PyInit_my_module and its one exported function my_function.             *)
(*                                                                         *)
(* The C type int is modelled as a two's-complement integer of IntBits     *)
(* bits.  The arithmetic of my_function is the same for every width, so    *)
(* a narrow width keeps every case of the 32-bit int (in range, out of     *)
(* range, product in range, product out of range) inside what TLC         *)
(* enumerates.                                                             *)
(***************************************************************************)
EXTENDS Integers, Sequences, FiniteSets, TLC

\* Width in bits of the native int of the model.
IntBits == 4
\* Largest number of arguments a modelled call passes.
MaxArgs == 2

RECURSIVE Pow2(_)
Pow2(k) == IF k = 0 THEN 1 ELSE 2 * Pow2(k - 1)

INT_MAX == Pow2(IntBits - 1) - 1
INT_MIN == -Pow2(IntBits - 1)
\* The values of the C type int.
Int32 == INT_MIN..INT_MAX
\* The values of the C type long, wider than int.
LONG_MAX == Pow2(2 * IntBits - 1) - 1
LONG_MIN == -Pow2(2 * IntBits - 1)

\* Two's-complement reduction of x to IntBits bits.
WrapInt(x) == ((x - INT_MIN) % Pow2(IntBits)) + INT_MIN

(***************************************************************************)
(* Runtime values (PyObject): an integer of any size, a text, a float,     *)
(* None.  NULL is the no-result sentinel of the C API.                     *)
(***************************************************************************)
PyLong(v) == [kind |-> "int", val |-> v]
PyUnicode(v) == [kind |-> "str", val |-> v]
PyFloat(v) == [kind |-> "float", val |-> v]
Py_None == [kind |-> "none", val |-> 0]
NULL == [kind |-> "NULL", val |-> 0]
\* The null module handle.
NoModule == [kind |-> "NULL", name |-> "NULL", methods |-> "NULL"]

\* Python integers offered as arguments: the int range and as much again
\* below and above it.
PyInts == (2 * INT_MIN)..(2 * INT_MAX + 2)
\* Values a one-argument call is made with.
Values == {PyLong(v) : v \in PyInts} \cup {PyUnicode(7), PyFloat(3), Py_None}
\* Values the arguments of a call of another arity are drawn from.
SomeValues == {PyLong(1), PyLong(INT_MAX + 1), PyUnicode(7), PyFloat(3), Py_None}

RECURSIVE Tuples(_, _)
Tuples(S, n) == IF n = 0 THEN {<<>>}
                ELSE {Append(s, x) : s \in Tuples(S, n - 1), x \in S}

\* The argument tuples of the modelled calls.
ArgTuples == {<<v>> : v \in Values}
             \cup UNION {Tuples(SomeValues, n) : n \in (0..MaxArgs) \ {1}}

\* The threads of the hosting runtime that use the module.
Threads == {"t1", "t2"}
\* The names the runtime looks up in the module.
Names == {"my_function", "other_function", "__doc__"}

\* The null pointer of a char* or function-pointer field.
NullPtr == "NULL"

(***************************************************************************)
(* The static data of my_module.c.                                         *)
(***************************************************************************)
\* A table without its final entry.
MyModuleMethods_nosentinel ==
    << [ml_name |-> "my_function", ml_meth |-> "my_function",
        ml_flags |-> "METH_VARARGS", ml_doc |-> "Doubles the input number."] >>

\* static PyMethodDef MyModuleMethods[]
MyModuleMethods ==
    << [ml_name |-> "my_function", ml_meth |-> "my_function",
        ml_flags |-> "METH_VARARGS", ml_doc |-> "Doubles the input number."],
       [ml_name |-> NullPtr, ml_meth |-> NullPtr,
        ml_flags |-> "0", ml_doc |-> NullPtr] >>

\* static struct PyModuleDef mymodule
MyModuleDef ==
    [m_base |-> "PyModuleDef_HEAD_INIT", m_name |-> "my_module",
     m_doc |-> NullPtr, m_size |-> -1, m_methods |-> "MyModuleMethods"]

\* An optional argument in place of the required one.
Format_optional == "|i"
\* A long in place of the int.
Format_long == "l"

\* The format string my_function parses its arguments with.
Format == "i"

(***************************************************************************)
(* The C API of the runtime that my_module.c calls.                        *)
(***************************************************************************)
ParseOk(v) == [ok |-> TRUE, stored |-> TRUE, val |-> v, err |-> "none"]
ParseSkip == [ok |-> TRUE, stored |-> FALSE, val |-> 0, err |-> "none"]
ParseErr(e) == [ok |-> FALSE, stored |-> FALSE, val |-> 0, err |-> e]

\* Conversion of one runtime value to a C integer of the range lo..hi.
ConvertInt(v, lo, hi) ==
    IF v.kind # "int" THEN ParseErr("TypeError")
    ELSE IF v.val < lo \/ v.val > hi THEN ParseErr("OverflowError")
    ELSE ParseOk(v.val)

\* PyArg_ParseTuple(a, fmt, &num): whether it succeeded, whether it stored
\* into num and what, and the error it set.
PyArg_ParseTuple(a, fmt) ==
    CASE fmt = "i" ->
           IF Len(a) # 1 THEN ParseErr("TypeError")
           ELSE ConvertInt(a[1], INT_MIN, INT_MAX)
      [] fmt = "|i" ->
           IF Len(a) > 1 THEN ParseErr("TypeError")
           ELSE IF Len(a) = 0 THEN ParseSkip
           ELSE ConvertInt(a[1], INT_MIN, INT_MAX)
      [] fmt = "l" ->
           IF Len(a) # 1 THEN ParseErr("TypeError")
           ELSE ConvertInt(a[1], LONG_MIN, LONG_MAX)

\* The errors PyArg_ParseTuple sets: the spec's ArgumentConversionError.
ArgumentConversionError == {"TypeError", "OverflowError"}

\* Py_BuildValue("i", r): the new integer object, or NULL with MemoryError
\* set when the runtime cannot allocate it.
Py_BuildValue(r) ==
    {[ret |-> PyLong(r), err |-> "none"], [ret |-> NULL, err |-> "MemoryError"]}

\* PyModule_Create(def): the new module object, or NULL when the runtime
\* cannot allocate it.
PyModule_Create(def) ==
    {[kind |-> "module", name |-> def.m_name, methods |-> def.m_methods],
     NoModule}

(***************************************************************************)
(* State.  loader, created, initRet: the module loader's progress, what    *)
(* PyModule_Create returned and what PyInit_my_module returned.  methods,  *)
(* mymodule: the static method table and module definition in memory.      *)
(* Per thread: pc is its position, lkName and lkIdx the name it looks up   *)
(* and the table index it reads, args the argument tuple of its call, num  *)
(* and result the locals of my_function (numInit: num has been written),   *)
(* ret and err the returned object and the thread's error indicator,       *)
(* steps the statements of my_function the call has executed.              *)
(***************************************************************************)
VARIABLES loader, created, initRet, methods, mymodule,
          pc, lkName, lkIdx, args, num, numInit, result, ret, err, steps

vars == <<loader, created, initRet, methods, mymodule,
          pc, lkName, lkIdx, args, num, numInit, result, ret, err, steps>>

statics == <<methods, mymodule>>
loaderVars == <<loader, created, initRet>>
lookupVars == <<lkName, lkIdx>>
callVars == <<args, num, numInit, result, ret, err, steps>>

Init ==
    /\ loader = "unloaded"
    /\ created = NoModule
    /\ initRet = NoModule
    /\ methods = MyModuleMethods
    /\ mymodule = MyModuleDef
    /\ pc = [t \in Threads |-> "idle"]
    /\ lkName = [t \in Threads |-> NullPtr]
    /\ lkIdx = [t \in Threads |-> 1]
    /\ args = [t \in Threads |-> <<>>]
    /\ num = [t \in Threads |-> 0]
    /\ numInit = [t \in Threads |-> FALSE]
    /\ result = [t \in Threads |-> 0]
    /\ ret = [t \in Threads |-> NULL]
    /\ err = [t \in Threads |-> "none"]
    /\ steps = [t \in Threads |-> {}]

\* The process runs: no thread has trapped.
Running == \A u \in Threads : pc[u] # "crashed"

(***************************************************************************)
(* Module load.                                                            *)
(***************************************************************************)
\* A return that drops the result of PyModule_Create.
PyInit_my_module_drop(m) == NoModule

\* PyInit_my_module returns what PyModule_Create(&mymodule) returned.
PyInit_my_module(m) == m

\* The loader calls the entry point once.
Load ==
    /\ loader = "unloaded"
    /\ \E m \in PyModule_Create(mymodule) :
         /\ created' = m
         /\ initRet' = PyInit_my_module(m)
    /\ loader' = IF initRet'.kind = "NULL" THEN "failed" ELSE "loaded"
    /\ UNCHANGED <<statics, pc, lookupVars, callVars>>

(***************************************************************************)
(* Lookup of a name in the method table, one entry read per step.          *)
(***************************************************************************)
\* What a read of entry i yields; past the end of the array it is whatever
\* lies in memory there.
TableAt(tbl, i) ==
    IF i \in 1..Len(tbl) THEN {tbl[i]}
    ELSE {[ml_name |-> NullPtr, ml_meth |-> NullPtr,
           ml_flags |-> "0", ml_doc |-> NullPtr],
          [ml_name |-> "garbage", ml_meth |-> "garbage",
           ml_flags |-> "garbage", ml_doc |-> "garbage"]}

Lookup(t) ==
    /\ Running
    /\ loader = "loaded"
    /\ pc[t] = "idle"
    /\ \E nm \in Names : lkName' = [lkName EXCEPT ![t] = nm]
    /\ lkIdx' = [lkIdx EXCEPT ![t] = 1]
    /\ pc' = [pc EXCEPT ![t] = "scan"]
    /\ UNCHANGED <<statics, loaderVars, callVars>>

Scan(t) ==
    /\ Running
    /\ pc[t] = "scan"
    /\ \E e \in TableAt(methods, lkIdx[t]) :
         IF e.ml_name = NullPtr
         THEN /\ pc' = [pc EXCEPT ![t] = "notfound"]
              /\ UNCHANGED lkIdx
         ELSE IF e.ml_name = lkName[t]
         THEN /\ pc' = [pc EXCEPT ![t] = "found"]
              /\ UNCHANGED lkIdx
         ELSE /\ lkIdx' = [lkIdx EXCEPT ![t] = lkIdx[t] + 1]
              /\ UNCHANGED pc
    /\ UNCHANGED <<statics, loaderVars, lkName, callVars>>

(***************************************************************************)
(* my_function, one statement per step.                                    *)
(***************************************************************************)
\* The runtime calls the function it found, with an argument tuple.
Call(t) ==
    /\ Running
    /\ pc[t] = "found"
    /\ \E a \in ArgTuples : args' = [args EXCEPT ![t] = a]
    /\ pc' = [pc EXCEPT ![t] = "parse"]
    /\ UNCHANGED <<statics, loaderVars, lookupVars,
                   num, numInit, result, ret, err, steps>>

\* num declared static: one variable for every thread.
StoreNum_static(nm, t, v) == [u \in DOMAIN nm |-> v]

\* The store into the local num of thread t's call.
StoreNum(nm, t, v) == [nm EXCEPT ![t] = v]

\* The test without its negation.
ParseFailed_inverted(ok) == ok
\* The return value of PyArg_ParseTuple ignored.
ParseFailed_ignored(ok) == FALSE

\* if (!PyArg_ParseTuple(args, "i", &num))
ParseFailed(ok) == ~ok

\* A value returned on the failure path.
FailReturn_value == Py_None

\* return NULL;
FailReturn == NULL

Parse(t) ==
    /\ Running
    /\ pc[t] = "parse"
    /\ LET r == PyArg_ParseTuple(args[t], Format) IN
         /\ err' = [err EXCEPT ![t] = r.err]
         /\ num' = IF r.stored THEN StoreNum(num, t, r.val) ELSE num
         /\ numInit' = IF r.stored THEN StoreNum(numInit, t, TRUE) ELSE numInit
         /\ IF ParseFailed(r.ok)
            THEN /\ ret' = [ret EXCEPT ![t] = FailReturn]
                 /\ pc' = [pc EXCEPT ![t] = "done"]
            ELSE /\ pc' = [pc EXCEPT ![t] = "mul"]
                 /\ UNCHANGED ret
    /\ steps' = [steps EXCEPT ![t] = steps[t] \cup {"parse"}]
    /\ UNCHANGED <<statics, loaderVars, lookupVars, args, result>>

\* num * 2 in the type int.  A product outside the range of int is a signed
\* overflow: the build either wraps it around or traps.
MulOutcomes(n) ==
    IF 2 * n \in Int32
    THEN {[trap |-> FALSE, val |-> 2 * n]}
    ELSE {[trap |-> FALSE, val |-> WrapInt(2 * n)], [trap |-> TRUE, val |-> 0]}

\* The values a read of num yields: its value, or any int before a store.
ReadNum(t) == IF numInit[t] THEN {num[t]} ELSE Int32

\* int result = num * 2;
Multiply(t) ==
    /\ Running
    /\ pc[t] = "mul"
    /\ \E n \in ReadNum(t) : \E o \in MulOutcomes(n) :
         IF o.trap
         THEN /\ pc' = [pc EXCEPT ![t] = "crashed"]
              /\ UNCHANGED result
         ELSE /\ pc' = [pc EXCEPT ![t] = "build"]
              /\ result' = [result EXCEPT ![t] = o.val]
    /\ steps' = [steps EXCEPT ![t] = steps[t] \cup {"mul"}]
    /\ UNCHANGED <<statics, loaderVars, lookupVars, args, num, numInit, ret, err>>

\* return Py_BuildValue("i", result);
Build(t) ==
    /\ Running
    /\ pc[t] = "build"
    /\ \E o \in Py_BuildValue(result[t]) :
         /\ ret' = [ret EXCEPT ![t] = o.ret]
         /\ err' = [err EXCEPT ![t] = IF o.err = "none" THEN err[t] ELSE o.err]
    /\ pc' = [pc EXCEPT ![t] = "done"]
    /\ steps' = [steps EXCEPT ![t] = steps[t] \cup {"build"}]
    /\ UNCHANGED <<statics, loaderVars, lookupVars, args, num, numInit, result>>

\* The caller takes the outcome of the call or of the failed lookup; the
\* frame of the call is gone and the error indicator is cleared.
Return(t) ==
    /\ Running
    /\ pc[t] \in {"done", "notfound"}
    /\ pc' = [pc EXCEPT ![t] = "idle"]
    /\ lkName' = [lkName EXCEPT ![t] = NullPtr]
    /\ lkIdx' = [lkIdx EXCEPT ![t] = 1]
    /\ args' = [args EXCEPT ![t] = <<>>]
    /\ num' = [num EXCEPT ![t] = 0]
    /\ numInit' = [numInit EXCEPT ![t] = FALSE]
    /\ result' = [result EXCEPT ![t] = 0]
    /\ ret' = [ret EXCEPT ![t] = NULL]
    /\ err' = [err EXCEPT ![t] = "none"]
    /\ steps' = [steps EXCEPT ![t] = {}]
    /\ UNCHANGED <<statics, loaderVars>>

Next ==
    \/ Load
    \/ \E t \in Threads : Lookup(t)
    \/ \E t \in Threads : Scan(t)
    \/ \E t \in Threads : Call(t)
    \/ \E t \in Threads : Parse(t)
    \/ \E t \in Threads : Multiply(t)
    \/ \E t \in Threads : Build(t)
    \/ \E t \in Threads : Return(t)

Spec == Init /\ [][Next]_vars

(***************************************************************************)
(* Properties.                                                             *)
(***************************************************************************)
\* The call of thread t has executed its parse.
Parsed(t) == pc[t] \in {"mul", "build", "done", "crashed"}
\* a is exactly one integer in the range of the native int.
OneIntInRange(a) == Len(a) = 1 /\ a[1].kind = "int" /\ a[1].val \in Int32
\* a is exactly one integer outside the range of the native int.
OneIntOutOfRange(a) == Len(a) = 1 /\ a[1].kind = "int" /\ a[1].val \notin Int32
\* a is exactly one value that is no integer.
OneNonInt(a) == Len(a) = 1 /\ a[1].kind # "int"
\* The call of thread t ended in ArgumentConversionError and no result.
ArgError(t) ==
    /\ pc[t] = "done"
    /\ ret[t] = NULL
    /\ err[t] \in ArgumentConversionError
    /\ steps[t] = {"parse"}

\* C1: every returned call with one integer n of the native int range, its
\* result object allocated, returned the integer 2*n and set no error.
C1_DoublesEveryInt ==
    \A t \in Threads :
        (pc[t] = "done" /\ OneIntInRange(args[t]) /\ err[t] # "MemoryError")
            => (ret[t] = PyLong(2 * args[t][1].val) /\ err[t] = "none")

\* C2: a call whose argument tuple has not exactly one element ends, once
\* parsed, with NULL returned and ArgumentConversionError set, and never
\* goes on to compute or build a value.
C2_WrongArity ==
    \A t \in Threads :
        (Parsed(t) /\ Len(args[t]) # 1) => ArgError(t)

C2_Witness ==
    \E t \in Threads, u \in Threads :
        /\ Len(args[t]) = 0 /\ ArgError(t)
        /\ Len(args[u]) >= 2 /\ ArgError(u)

\* C3: a call with exactly one argument that is no integer ends, once
\* parsed, with NULL returned and ArgumentConversionError set; the value is
\* never made an integer and doubled.
C3_NotAnInteger ==
    \A t \in Threads :
        (Parsed(t) /\ OneNonInt(args[t])) => (ArgError(t) /\ ~numInit[t])

C3_Witness ==
    \E t \in Threads, u \in Threads :
        /\ args[t] = <<PyUnicode(7)>> /\ ArgError(t)
        /\ args[u] = <<PyFloat(3)>> /\ ArgError(u)

\* C4: a call with exactly one integer outside the native int range ends,
\* once parsed, with NULL returned and ArgumentConversionError set; the
\* value is never stored, wrapped and doubled, and the process never traps.
C4_OutOfRange ==
    \A t \in Threads :
        (Parsed(t) /\ OneIntOutOfRange(args[t])) => (ArgError(t) /\ ~numInit[t])

C4_Witness ==
    \E t \in Threads, u \in Threads :
        /\ args[t] = <<PyLong(INT_MAX + 1)>> /\ ArgError(t)
        /\ args[u] = <<PyLong(INT_MIN - 1)>> /\ ArgError(u)

SentinelIndex(tbl) ==
    CHOOSE i \in 1..Len(tbl) :
        /\ tbl[i].ml_name = NullPtr
        /\ \A j \in 1..(i - 1) : tbl[j].ml_name # NullPtr

\* C7: once the module is loaded the table is the my_function entry
\* (METH_VARARGS, "Doubles the input number.") followed by the all-null
\* sentinel; no lookup reads past the sentinel, only my_function is found,
\* and every other name ends not found, at the sentinel.
C7_TableAndLookup ==
    loader = "loaded" =>
        /\ Len(methods) = 2
        /\ methods[1] = [ml_name |-> "my_function", ml_meth |-> "my_function",
                         ml_flags |-> "METH_VARARGS",
                         ml_doc |-> "Doubles the input number."]
        /\ methods[2] = [ml_name |-> NullPtr, ml_meth |-> NullPtr,
                         ml_flags |-> "0", ml_doc |-> NullPtr]
        /\ \A t \in Threads :
             /\ lkIdx[t] \in 1..SentinelIndex(methods)
             /\ pc[t] = "found" => (lkName[t] = "my_function" /\ lkIdx[t] = 1)
             /\ pc[t] = "notfound" =>
                   (lkName[t] # "my_function" /\ lkIdx[t] = SentinelIndex(methods))

C7_Witness ==
    \E t \in Threads, u \in Threads :
        /\ pc[t] = "found" /\ lkName[t] = "my_function"
        /\ pc[u] = "notfound" /\ lkName[u] = "other_function" /\ lkIdx[u] = 2

\* The outcomes of a call of my_function with arguments a that runs alone.
IsolatedOutcomes(a) ==
    LET r == PyArg_ParseTuple(a, Format) IN
    IF ParseFailed(r.ok)
    THEN {[ret |-> FailReturn, err |-> r.err]}
    ELSE {[ret |-> b.ret, err |-> IF b.err = "none" THEN r.err ELSE b.err] :
            b \in UNION {Py_BuildValue(o.val) :
                           o \in {x \in MulOutcomes(r.val) : ~x.trap}}}

\* C8: in every reachable state the method table and the module definition
\* are as at load, and the outcome of every returned call, whatever the
\* other thread did meanwhile, is an outcome of the same call run alone.
C8_Stateless ==
    /\ methods = MyModuleMethods
    /\ mymodule = MyModuleDef
    /\ \A t \in Threads :
         pc[t] = "done" =>
            [ret |-> ret[t], err |-> err[t]] \in IsolatedOutcomes(args[t])

C8_Witness ==
    \E t \in Threads, u \in Threads :
        /\ pc[t] = "done" /\ args[t] = <<PyLong(1)>> /\ ret[t] = PyLong(2)
        /\ pc[u] = "done" /\ args[u] = <<PyLong(3)>> /\ ret[u] = PyLong(6)

\* C9: once the entry point has run, it has returned what PyModule_Create
\* returned: a module named my_module with the method table
\* MyModuleMethods and the load succeeds, or the null handle and the load
\* fails.
C9_InitPassesThrough ==
    loader # "unloaded" =>
        /\ initRet = created
        /\ \/ /\ loader = "loaded"
              /\ initRet = [kind |-> "module", name |-> "my_module",
                            methods |-> "MyModuleMethods"]
           \/ /\ loader = "failed"
              /\ initRet = NoModule

C9_Witness ==
    loader = "failed" /\ created = NoModule /\ initRet = NoModule

\* C10: a returned result has the sign of its argument n and equals 2*n:
\* 0 for 0, negative for negative n, positive for positive n.
C10_SignPreserved ==
    \A t \in Threads :
        (pc[t] = "done" /\ OneIntInRange(args[t]) /\ ret[t] # NULL) =>
            LET n == args[t][1].val
                r == ret[t].val
            IN /\ (n = 0 => r = 0)
               /\ (n < 0 => (r < 0 /\ r = 2 * n))
               /\ (n > 0 => (r > 0 /\ r = 2 * n))

====
